---- MODULE Spec2Model ----
(***************************************************************************)
(* Model of the Zulim voice client (the App component): the connection     *)
(* lifecycle of connectToZulim and its transport callbacks, the microphone *)
(* capture installed by onopen, the playback scheduling done by onmessage, *)
(* the transcript aggregation, the lip-sync polling loop, handleSendText   *)
(* and the unmount of the component.                                       *)
(*                                                                         *)
(* Times are integers (one unit = one tick of the output clock);           *)
(* volumes are integers in hundredths (100 = 1.0).                         *)
(***************************************************************************)
EXTENDS Integers, Sequences, FiniteSets, TLC

\* ---------------------------------------------------------------- bounds
MaxConnects == 2      \* connectToZulim invocations in one run
MaxChunks   == 2      \* inbound messages that carry audio
MaxDeltas   == 2      \* transcript deltas buffered in one turn
MaxTurns    == 2      \* turn-complete events
MaxResets   == 1      \* interruption events
MaxTime     == 1      \* last value of the output clock
MaxDur      == 1      \* longest decoded buffer
MaxSends    == 1      \* handleSendText submissions
MaxFrames   == 2      \* audioprocess events of one script processor

\* ------------------------------------------------------------- constants
\* ConnectionStatus (types.ts)
DISCONNECTED == "DISCONNECTED"
CONNECTING   == "CONNECTING"
CONNECTED    == "CONNECTED"
ERROR        == "ERROR"
ConnectionStatus == {DISCONNECTED, CONNECTING, CONNECTED, ERROR}

\* the values errorMessage takes
NoError     == "null"
MicDenied   == "Acesso ao microfone negado pelo sistema."
ConnError   == "Erro na conexao com a Zulim."
ConnFailed  == "Falha na conexao."

VolumeScale == 100    \* average / 100, saturating at 1

\* magnitudes the analyser may report (0..255), a sample of them
Averages == {0, 40, 100, 255}

\* every average of a Uint8Array of magnitudes, rounded to an integer
Magnitudes == 0..255

\* texts typed into the input box: sequences of blanks and letters
Texts == {<<>>, <<" ">>, <<"x">>, <<" ", "x">>, <<"x", " ">>}

\* transcript delta payloads; <<>> stands for a message without one
Deltas == {<<>>, <<"a">>, <<"b">>}

VARIABLES
    aistudio,          \* window.aistudio exists (fixed for the page)
    status,            \* useState status
    shownStatus,       \* status of the render the user currently sees
    errorMessage,      \* useState errorMessage
    isMicEnabled,      \* useState isMicEnabled
    isSpeaking,        \* useState isSpeaking
    audioVolume,       \* useState audioVolume, in hundredths
    messages,          \* useState messages
    outputReady,       \* outputAudioContextRef.current # null
    sessionRef,        \* sessionRef.current: 0 (null) or a call id
    sourcesRef,        \* sourcesRef.current: set of chunk ids
    nextStartTimeRef,  \* nextStartTimeRef.current
    transcription,     \* currentOutputTranscriptionRef.current
    currentTime,       \* outputAudioContextRef.current.currentTime
    calls,             \* one record per connectToZulim invocation
    chunks,            \* one record per inbound audio chunk, arrival order
    stopped,           \* sources stopped by stop() whose 'ended' is pending
    rafLoops,          \* live requestAnimationFrame(updateLipSync) loops
    resets,            \* interruption events handled so far
    sent,              \* what was handed to session.sendRealtimeInput
    heard,             \* history: deltas received since the last turn-complete
    lastTurn,          \* history: deltas of the last completed turn
    turns,             \* history: turn-complete events received
    captured,          \* per call: audioprocess events handled so far
    queued,            \* per call: frames whose sessionPromise.then is pending
    mediaSent,         \* frames handed to session.sendRealtimeInput, in order
    mounted,           \* the App component is mounted
    average            \* the average magnitude of the last sample taken

vars == <<aistudio, status, shownStatus, errorMessage, isMicEnabled, isSpeaking,
          audioVolume, messages, outputReady, sessionRef, sourcesRef,
          nextStartTimeRef, transcription, currentTime, calls, chunks,
          stopped, rafLoops, resets, sent, heard, lastTurn, turns,
          captured, queued, mediaSent, mounted, average>>

uiVars       == <<aistudio, status, shownStatus, errorMessage, isMicEnabled>>
playbackVars == <<sourcesRef, nextStartTimeRef, chunks, stopped, resets>>
speakVars    == <<isSpeaking, audioVolume, rafLoops>>
textVars     == <<messages, transcription, sent>>
turnVars     == <<heard, lastTurn, turns>>
captureVars  == <<captured, queued, mediaSent>>

\* ------------------------------------------------------------- helpers
Max(a, b) == IF a >= b THEN a ELSE b
Min(a, b) == IF a <= b THEN a ELSE b

\* String.prototype.trim on a sequence of characters
RECURSIVE TrimLeft(_)
TrimLeft(s) == IF s # <<>> /\ Head(s) = " " THEN TrimLeft(Tail(s)) ELSE s

RECURSIVE TrimRight(_)
TrimRight(s) ==
    IF s # <<>> /\ s[Len(s)] = " "
    THEN TrimRight(SubSeq(s, 1, Len(s) - 1))
    ELSE s

Trim(s) == TrimRight(TrimLeft(s))

\* line 57 without Math.min
VolumeUnclamped(avg) == avg

\* Math.min(1, average / 100), in hundredths
Volume(avg) == Min(VolumeScale, avg)

\* line 146 with the assignment taking the clock instead of the maximum
ClampToClock(nst, now) == now

\* nextStartTimeRef.current = Math.max(nextStartTimeRef.current,
\* ctx.currentTime) (line 146)
Clamp(nst, now) == Max(nst, now)

\* line 166 with the delta put in front of the buffer
AccumulateInFront(buffer, text) == text \o buffer

\* currentOutputTranscriptionRef.current += text (line 166)
Accumulate(buffer, text) == buffer \o text

\* the pcmBlob of the n-th audioprocess event of call c (lines 130-131);
\* early: the session promise was still pending when it was captured
Frame(c, n, early) == [session |-> c, n |-> n, early |-> early]

\* the pending reactions run last-registered first
RECURSIVE ReactionsReversed(_)
ReactionsReversed(q) ==
    IF q = <<>> THEN <<>>
    ELSE Append(ReactionsReversed(Tail(q)), Head(q))

\* the reactions registered on the session promise by
\* sessionPromise.then (line 132) run in the order they were registered,
\* each once
RECURSIVE Reactions(_)
Reactions(q) ==
    IF q = <<>> THEN <<>>
    ELSE <<Head(q)>> \o Reactions(Tail(q))

\* a LiveServerMessage, reduced to the fields onmessage reads
Message(audio, text, turnComplete, interrupted) ==
    [audio |-> audio, text |-> text,
     turnComplete |-> turnComplete, interrupted |-> interrupted]

ServerMessages ==
    { Message(a, t, tc, i) : a \in 0..MaxDur, t \in Deltas,
                             tc \in BOOLEAN, i \in BOOLEAN }
    \ { Message(0, <<>>, FALSE, FALSE) }

NoCall == [pc |-> "idle", forceNoMic |-> FALSE, mic |-> "none",
           stream |-> FALSE, transport |-> "none", opened |-> FALSE]

\* --------------------------------------------------------------- Init
Init ==
    /\ aistudio \in BOOLEAN
    /\ status = DISCONNECTED
    /\ shownStatus = DISCONNECTED
    /\ errorMessage = NoError
    /\ isMicEnabled = TRUE
    /\ isSpeaking = FALSE
    /\ audioVolume = 0
    /\ messages = <<>>
    /\ outputReady = FALSE
    /\ sessionRef = 0
    /\ sourcesRef = {}
    /\ nextStartTimeRef = 0
    /\ transcription = <<>>
    /\ currentTime = 0
    /\ calls = [c \in 1..MaxConnects |-> NoCall]
    /\ chunks = <<>>
    /\ stopped = {}
    /\ rafLoops = 0
    /\ resets = 0
    /\ sent = <<>>
    /\ heard = <<>>
    /\ lastTurn = <<>>
    /\ turns = 0
    /\ captured = [c \in 1..MaxConnects |-> 0]
    /\ queued = [c \in 1..MaxConnects |-> <<>>]
    /\ mediaSent = <<>>
    /\ mounted = TRUE
    /\ average = 0

\* ------------------------------------------------- the rendered view
\* React commits the status to the screen; the buttons and the form the
\* user can reach are those of the last committed render (lines 235-349).
Render ==
    /\ shownStatus # status
    /\ shownStatus' = status
    /\ UNCHANGED <<status, errorMessage, isMicEnabled, outputReady,
                   sessionRef, currentTime, calls>>
    /\ UNCHANGED <<aistudio, playbackVars, speakVars, textVars, turnVars>>
    /\ UNCHANGED <<captureVars, mounted, average>>

\* ------------------------------------------------------ connectToZulim
\* setStatus called inside the click handler is committed with the click.
SetStatusInClick(s) ==
    /\ status' = s
    /\ shownStatus' = s

\* setStatus called from a promise continuation or a transport callback.
SetStatus(s) ==
    /\ status' = s
    /\ UNCHANGED shownStatus

\* the catch of connectToZulim (lines 199-203)
ConnectCatch(c) ==
    /\ SetStatus(ERROR)
    /\ errorMessage' = ConnFailed
    /\ calls' = [calls EXCEPT ![c].pc = "done",
                              ![c].transport =
                                  IF @ = "opening" THEN "closed" ELSE @]

\* ai.live.connect(...) is called and `await sessionPromise` suspends
\* (lines 112-198)
LiveConnect(c, mic) ==
    calls' = [calls EXCEPT ![c].pc = "live", ![c].mic = mic,
                           ![c].stream = (mic = "granted"),
                           ![c].transport = "opening"]

\* A click on one of the connect buttons (lines 248, 255, 284): they are
\* on screen while the shown status is DISCONNECTED or ERROR, and the ERROR
\* card only offers connectToZulim(true).  Lines 73-86 up to the first
\* await: with window.aistudio the call suspends on hasSelectedApiKey()
\* before it sets CONNECTING, without it the call goes on to
\* `await initializeAudio()`, which creates the two audio contexts before
\* it suspends (lines 29-38).
ConnectClick(c, forceNoMic) ==
    /\ calls[c].pc = "idle"
    /\ \A d \in 1..(c - 1) : calls[d].pc # "idle"
    /\ \/ shownStatus = DISCONNECTED
       \/ shownStatus = ERROR /\ forceNoMic
    /\ errorMessage' = NoError
    /\ IF aistudio
       THEN /\ calls' = [calls EXCEPT ![c].pc = "key",
                                      ![c].forceNoMic = forceNoMic]
            /\ UNCHANGED <<status, shownStatus, outputReady>>
       ELSE /\ calls' = [calls EXCEPT ![c].pc = "init",
                                      ![c].forceNoMic = forceNoMic]
            /\ SetStatusInClick(CONNECTING)
            /\ outputReady' = TRUE
    /\ UNCHANGED <<isMicEnabled, sessionRef, currentTime>>
    /\ UNCHANGED <<aistudio, playbackVars, speakVars, textVars, turnVars>>
    /\ UNCHANGED <<captureVars, mounted, average>>

\* hasSelectedApiKey / openSelectKey resolved (lines 79-86): CONNECTING
\* is set and initializeAudio is entered.
KeyChecked(c) ==
    /\ calls[c].pc = "key"
    /\ SetStatus(CONNECTING)
    /\ outputReady' = TRUE
    /\ calls' = [calls EXCEPT ![c].pc = "init"]
    /\ UNCHANGED <<errorMessage, isMicEnabled, sessionRef, currentTime>>
    /\ UNCHANGED <<aistudio, playbackVars, speakVars, textVars, turnVars>>
    /\ UNCHANGED <<captureVars, mounted, average>>

\* initializeAudio resolved (lines 40-45, 86-93, 108-112): with
\* forceNoMic the transport is opened at once, otherwise the call suspends
\* on getUserMedia.
AudioInitialized(c) ==
    /\ calls[c].pc = "init"
    /\ UNCHANGED outputReady
    /\ IF calls[c].forceNoMic
       THEN /\ isMicEnabled' = FALSE
            /\ LiveConnect(c, "none")
       ELSE /\ calls' = [calls EXCEPT ![c].pc = "mic"]
            /\ UNCHANGED isMicEnabled
    /\ UNCHANGED <<status, shownStatus, errorMessage, sessionRef,
                   currentTime>>
    /\ UNCHANGED <<aistudio, playbackVars, speakVars, textVars, turnVars>>
    /\ UNCHANGED <<captureVars, mounted, average>>

\* getUserMedia resolved (lines 95-97, 112)
MicGranted(c) ==
    /\ calls[c].pc = "mic"
    /\ isMicEnabled' = TRUE
    /\ LiveConnect(c, "granted")
    /\ UNCHANGED <<status, shownStatus, errorMessage, outputReady,
                   sessionRef, currentTime>>
    /\ UNCHANGED <<aistudio, playbackVars, speakVars, textVars, turnVars>>
    /\ UNCHANGED <<captureVars, mounted, average>>

\* lines 102-106 without the early return: the call falls through to
\* ai.live.connect
OnMicDeniedFallThrough(c) ==
    /\ calls' = [calls EXCEPT ![c].pc = "live", ![c].mic = "denied",
                              ![c].transport = "opening"]
    /\ UNCHANGED <<status, shownStatus, errorMessage>>

\* what the catch of getUserMedia does with a permission-denied error
\* (lines 102-106)
OnMicDenied(c) ==
    /\ SetStatus(ERROR)
    /\ errorMessage' = MicDenied
    /\ calls' = [calls EXCEPT ![c].pc = "done", ![c].mic = "denied"]

\* getUserMedia rejected (lines 98-107): denied is NotAllowedError /
\* PermissionDeniedError / a message with 'denied'; any other error
\* (no device) falls through to ai.live.connect.
MicFailed(c, denied) ==
    /\ calls[c].pc = "mic"
    /\ isMicEnabled' = FALSE
    /\ IF denied
       THEN OnMicDenied(c)
       ELSE /\ LiveConnect(c, "unavailable")
            /\ UNCHANGED <<status, shownStatus, errorMessage>>
    /\ UNCHANGED <<outputReady, sessionRef, currentTime>>
    /\ UNCHANGED <<aistudio, playbackVars, speakVars, textVars, turnVars>>
    /\ UNCHANGED <<captureVars, mounted, average>>

\* an await of connectToZulim rejects outside the inner try (the key
\* check, initializeAudio, or the session promise before the transport
\* opened): lines 199-203
ConnectThrows(c) ==
    /\ \/ calls[c].pc \in {"key", "init"}
       \/ calls[c].pc = "live" /\ calls[c].transport = "opening"
    /\ ConnectCatch(c)
    /\ UNCHANGED <<isMicEnabled, outputReady, sessionRef, currentTime>>
    /\ UNCHANGED <<aistudio, playbackVars, speakVars, textVars, turnVars>>
    /\ UNCHANGED <<captureVars, mounted, average>>

\* ------------------------------------------------- transport callbacks
\* onopen (lines 123-140)
OnOpen(c) ==
    /\ calls[c].transport = "opening"
    /\ SetStatus(CONNECTED)
    /\ calls' = [calls EXCEPT ![c].transport = "open", ![c].opened = TRUE]
    /\ UNCHANGED <<errorMessage, isMicEnabled, outputReady, sessionRef,
                   currentTime>>
    /\ UNCHANGED <<aistudio, playbackVars, speakVars, textVars, turnVars>>
    /\ UNCHANGED <<captureVars, mounted, average>>

\* `sessionRef.current = await sessionPromise` (line 198): the promise
\* resolves once the transport has opened.  The continuation of line 198
\* was registered first; the reactions that onaudioprocess registered
\* while the promise was pending (line 132) run after it, in the same
\* microtask checkpoint.
SessionResolved(c) ==
    /\ calls[c].pc = "live"
    /\ calls[c].opened
    /\ sessionRef' = c
    /\ calls' = [calls EXCEPT ![c].pc = "done"]
    /\ mediaSent' = mediaSent \o Reactions(queued[c])
    /\ queued' = [queued EXCEPT ![c] = <<>>]
    /\ UNCHANGED <<status, shownStatus, errorMessage, isMicEnabled,
                   outputReady, currentTime>>
    /\ UNCHANGED <<aistudio, playbackVars, speakVars, textVars, turnVars>>
    /\ UNCHANGED <<captured, mounted, average>>

\* onerror (lines 184-191)
OnError(c) ==
    /\ calls[c].transport \in {"opening", "open"}
    /\ SetStatus(ERROR)
    /\ errorMessage' = ConnError
    /\ calls' = [calls EXCEPT ![c].transport = "failed"]
    /\ UNCHANGED <<isMicEnabled, outputReady, sessionRef, currentTime>>
    /\ UNCHANGED <<aistudio, playbackVars, speakVars, textVars, turnVars>>
    /\ UNCHANGED <<captureVars, mounted, average>>

\* onclose (lines 192-194)
OnClose(c) ==
    /\ calls[c].transport \in {"open", "failed"}
    /\ SetStatus(DISCONNECTED)
    /\ calls' = [calls EXCEPT ![c].transport = "closed"]
    /\ UNCHANGED <<errorMessage, isMicEnabled, outputReady, sessionRef,
                   currentTime>>
    /\ UNCHANGED <<aistudio, playbackVars, speakVars, textVars, turnVars>>
    /\ UNCHANGED <<captureVars, mounted, average>>

\* ------------------------------------------------------------- capture
\* the session promise of call c has resolved
Resolved(c) == calls[c].opened /\ calls[c].pc = "done"

\* An audioprocess event of the script processor that onopen installed
\* for a call with a stream (lines 125-137).  The handler registers a
\* reaction on the session promise (lines 132-134): with the promise
\* resolved it runs in the microtask that follows the handler, otherwise it
\* waits for the promise.  Nothing ever disconnects the processor or stops
\* the stream.
CaptureFrame(c) ==
    /\ calls[c].stream
    /\ calls[c].opened
    /\ captured[c] < MaxFrames
    /\ captured' = [captured EXCEPT ![c] = @ + 1]
    /\ IF Resolved(c)
       THEN /\ mediaSent' = Append(mediaSent,
                                   Frame(c, captured[c] + 1, FALSE))
            /\ UNCHANGED queued
       ELSE /\ queued' = [queued EXCEPT
                            ![c] = Append(@, Frame(c, captured[c] + 1, TRUE))]
            /\ UNCHANGED mediaSent
    /\ UNCHANGED <<uiVars, playbackVars, speakVars, textVars, turnVars>>
    /\ UNCHANGED <<outputReady, sessionRef, currentTime, calls, mounted, average>>

\* The App component is unmounted.  Neither effect returns a cleanup
\* (lines 61-71) and no other teardown exists, so nothing is stopped,
\* closed or released.
Unmount ==
    /\ mounted
    /\ mounted' = FALSE
    /\ UNCHANGED <<uiVars, playbackVars, speakVars, textVars, turnVars>>
    /\ UNCHANGED <<outputReady, sessionRef, currentTime, calls, captureVars,
                   average>>

\* ------------------------------------------------------------ onmessage
\* lines 171-173 with the new entry put in place of the log
FinalizeReplacing(log, fullText) ==
    IF fullText # <<>>
    THEN <<[role |-> "zulim", text |-> fullText]>>
    ELSE log

\* if (fullText) setMessages(prev => [...prev, {role: 'zulim', text:
\* fullText}]) (lines 170-174)
Finalize(log, fullText) ==
    IF fullText # <<>>
    THEN Append(log, [role |-> "zulim", text |-> fullText])
    ELSE log

\* The part of onmessage after the audio branch (lines 165-182), run on
\* the sources, next start time and speaking flag the audio branch left:
\* transcript delta, turn-complete, interruption.
HandleRest(m, srcs, nst, spk) ==
    LET buffered == Accumulate(transcription, m.text)
        fullText == buffered
    IN  /\ IF m.turnComplete
           THEN /\ messages' = Finalize(messages, fullText)
                /\ transcription' = <<>>
           ELSE /\ messages' = messages
                /\ transcription' = buffered
        /\ IF m.interrupted
           THEN /\ stopped' = stopped \cup srcs
                /\ sourcesRef' = {}
                /\ nextStartTimeRef' = 0
                /\ isSpeaking' = FALSE
                /\ resets' = resets + 1
           ELSE /\ stopped' = stopped
                /\ sourcesRef' = srcs
                /\ nextStartTimeRef' = nst
                /\ isSpeaking' = spk
                /\ resets' = resets

\* the record kept for a chunk whose decodeAudioData is pending; arrived,
\* late and epoch (the interruptions handled before it arrived) are history
NewChunk(m) ==
    [dur |-> m.audio, st |-> "decoding", start |-> 0, end |-> 0,
     playEnd |-> 0, arrived |-> currentTime,
     late |-> (nextStartTimeRef < currentTime), epoch |-> resets,
     rest |-> [m EXCEPT !.audio = 0]]

\* history of the transcript events in the order the transport delivered
\* them
Hear(m) ==
    LET got == IF m.text # <<>> THEN Append(heard, m.text) ELSE heard
    IN  IF m.turnComplete
        THEN /\ heard' = <<>>
             /\ lastTurn' = got
             /\ turns' = turns + 1
        ELSE /\ heard' = got
             /\ UNCHANGED <<lastTurn, turns>>

\* The transport delivers a message (lines 141-183).  With audio the
\* handler sets isSpeaking, clamps nextStartTime to the clock and suspends
\* on decodeAudioData (lines 142-148); the rest of the handler runs when
\* the decode resolves.  The effect of lines 61-65 starts a polling loop
\* when isSpeaking turns true.
OnMessage(c, m) ==
    /\ calls[c].transport = "open"
    /\ m.text # <<>> => Len(transcription) < MaxDeltas
    /\ m.turnComplete => turns < MaxTurns
    /\ m.interrupted => resets < MaxResets
    /\ Hear(m)
    /\ IF m.audio # 0 /\ outputReady
       THEN /\ Len(chunks) < MaxChunks
            /\ isSpeaking' = TRUE
            /\ rafLoops' = IF isSpeaking THEN rafLoops ELSE rafLoops + 1
            /\ nextStartTimeRef' = Clamp(nextStartTimeRef, currentTime)
            /\ chunks' = Append(chunks, NewChunk(m))
            /\ UNCHANGED <<sourcesRef, stopped, resets, messages,
                           transcription>>
       ELSE /\ HandleRest(m, sourcesRef, nextStartTimeRef, isSpeaking)
            /\ UNCHANGED <<chunks, rafLoops>>
    /\ UNCHANGED <<uiVars, audioVolume, outputReady, sessionRef,
                   currentTime, calls, sent>>
    /\ UNCHANGED <<captureVars, mounted, average>>

\* source.start(when) and the bookkeeping after it (lines 160-162)
Schedule(ch, when) ==
    [ch EXCEPT !.st = "scheduled", !.start = when, !.end = when + ch.dur,
               !.playEnd = Max(when, currentTime) + ch.dur]

\* decodeAudioData resolved: lines 149-162, then the rest of that
\* message's handler (lines 165-182).
DecodeDone(i) ==
    /\ i \in 1..Len(chunks)
    /\ chunks[i].st = "decoding"
    /\ chunks' = [chunks EXCEPT ![i] = Schedule(@, nextStartTimeRef)]
    /\ HandleRest(chunks[i].rest, sourcesRef \cup {i},
                  nextStartTimeRef + chunks[i].dur, isSpeaking)
    /\ UNCHANGED <<turnVars, captureVars, mounted, average>>
    /\ UNCHANGED <<uiVars, audioVolume, rafLoops, outputReady, sessionRef,
                   currentTime, calls, sent>>

\* decodeAudioData rejected: the handler ends at line 148.
DecodeFail(i) ==
    /\ i \in 1..Len(chunks)
    /\ chunks[i].st = "decoding"
    /\ chunks' = [chunks EXCEPT ![i].st = "failed"]
    /\ UNCHANGED <<turnVars, captureVars, mounted, average>>
    /\ UNCHANGED <<uiVars, speakVars, textVars, outputReady, sessionRef,
                   sourcesRef, nextStartTimeRef, stopped, resets,
                   currentTime, calls>>

\* the 'ended' listener of a source (lines 153-158): fired when the buffer
\* has played to its end, or after stop()
Ended(i) ==
    /\ \/ i \in sourcesRef /\ chunks[i].playEnd <= currentTime
       \/ i \in stopped
    /\ sourcesRef' = sourcesRef \ {i}
    /\ stopped' = stopped \ {i}
    /\ isSpeaking' = IF sourcesRef' = {} THEN FALSE ELSE isSpeaking
    /\ UNCHANGED <<turnVars, captureVars, mounted, average>>
    /\ UNCHANGED <<uiVars, textVars, audioVolume, rafLoops, outputReady,
                   sessionRef, nextStartTimeRef, chunks, resets,
                   currentTime, calls>>

\* the output context's clock advances
ClockTick ==
    /\ outputReady
    /\ currentTime < MaxTime
    /\ currentTime' = currentTime + 1
    /\ UNCHANGED <<turnVars, captureVars, mounted, average>>
    /\ UNCHANGED <<uiVars, playbackVars, speakVars, textVars, outputReady,
                   sessionRef, calls>>

\* one animation frame of a polling loop (lines 48-59): every loop was
\* started by the effect with isSpeaking true and runs the closure of that
\* render, so it samples and reschedules itself.
UpdateLipSync(avg) ==
    /\ rafLoops > 0
    /\ average' = avg
    /\ audioVolume' = Volume(avg)
    /\ UNCHANGED <<turnVars, captureVars, mounted>>
    /\ UNCHANGED <<uiVars, playbackVars, textVars, isSpeaking, rafLoops,
                   outputReady, sessionRef, currentTime, calls>>

\* ------------------------------------------------------- handleSendText
\* the guard of line 208
SendAllowed(text) == Trim(text) # <<>> /\ sessionRef # 0

\* submit of the form (lines 206-217); the form is on screen while the
\* shown status is CONNECTED (lines 299, 332).
HandleSendText(text) ==
    /\ shownStatus = CONNECTED
    /\ Len(sent) < MaxSends
    /\ IF SendAllowed(text)
       THEN /\ messages' = Append(messages,
                                  [role |-> "user", text |-> Trim(text)])
            /\ sent' = Append(sent, [session |-> sessionRef,
                                     text |-> Trim(text)])
       ELSE UNCHANGED <<messages, sent>>
    /\ UNCHANGED <<turnVars, captureVars, mounted, average>>
    /\ UNCHANGED <<uiVars, playbackVars, speakVars, transcription,
                   outputReady, sessionRef, currentTime, calls>>

\* ----------------------------------------------------------------- Next
\* every step of the mounted component
AppNext ==
    \/ Render
    \/ \E c \in 1..MaxConnects, f \in BOOLEAN : ConnectClick(c, f)
    \/ \E c \in 1..MaxConnects : KeyChecked(c)
    \/ \E c \in 1..MaxConnects : AudioInitialized(c)
    \/ \E c \in 1..MaxConnects : MicGranted(c)
    \/ \E c \in 1..MaxConnects, d \in BOOLEAN : MicFailed(c, d)
    \/ \E c \in 1..MaxConnects : ConnectThrows(c)
    \/ \E c \in 1..MaxConnects : OnOpen(c)
    \/ \E c \in 1..MaxConnects : SessionResolved(c)
    \/ \E c \in 1..MaxConnects : OnError(c)
    \/ \E c \in 1..MaxConnects : OnClose(c)
    \/ \E c \in 1..MaxConnects, m \in ServerMessages : OnMessage(c, m)
    \/ \E i \in 1..MaxChunks : DecodeDone(i)
    \/ \E i \in 1..MaxChunks : DecodeFail(i)
    \/ \E i \in 1..MaxChunks : Ended(i)
    \/ ClockTick
    \/ \E a \in Averages : UpdateLipSync(a)
    \/ \E t \in Texts : HandleSendText(t)
    \/ \E c \in 1..MaxConnects : CaptureFrame(c)

\* after the unmount the model follows the script processors only
Next ==
    \/ mounted /\ AppNext
    \/ Unmount
    \/ ~mounted /\ \E c \in 1..MaxConnects : CaptureFrame(c)

Spec == Init /\ [][Next]_vars

\* ---------------------------------------------------------------------
\* The connection lifecycle on its own: every connect path, every
\* transport callback and the render; no inbound message.
LifecycleNext ==
    \/ Render
    \/ \E c \in 1..MaxConnects, f \in BOOLEAN : ConnectClick(c, f)
    \/ \E c \in 1..MaxConnects : KeyChecked(c)
    \/ \E c \in 1..MaxConnects : AudioInitialized(c)
    \/ \E c \in 1..MaxConnects : MicGranted(c)
    \/ \E c \in 1..MaxConnects, d \in BOOLEAN : MicFailed(c, d)
    \/ \E c \in 1..MaxConnects : ConnectThrows(c)
    \/ \E c \in 1..MaxConnects : OnOpen(c)
    \/ \E c \in 1..MaxConnects : SessionResolved(c)
    \/ \E c \in 1..MaxConnects : OnError(c)
    \/ \E c \in 1..MaxConnects : OnClose(c)

LifecycleSpec == Init /\ [][LifecycleNext]_vars

\* The connection lifecycle together with the form.
SessionNext ==
    \/ LifecycleNext
    \/ \E t \in Texts : HandleSendText(t)

SessionSpec == Init /\ [][SessionNext]_vars

\* a page without window.aistudio
PlainInit == Init /\ ~aistudio

\* ---------------------------------------------------------------------
\* Playback on its own: the first connection, made text-only on a page
\* without window.aistudio, its callbacks, and inbound messages that carry audio or
\* an interruption (not both) and no transcript.
PlaybackMessages ==
    { m \in ServerMessages : /\ m.text = <<>> /\ ~m.turnComplete
                             /\ m.audio = 0 \/ ~m.interrupted }

PlaybackNext ==
    \/ ConnectClick(1, TRUE)
    \/ AudioInitialized(1)
    \/ OnOpen(1)
    \/ OnError(1)
    \/ OnClose(1)
    \/ \E m \in PlaybackMessages : OnMessage(1, m)
    \/ \E i \in 1..MaxChunks : DecodeDone(i)
    \/ \E i \in 1..MaxChunks : DecodeFail(i)
    \/ \E i \in 1..MaxChunks : Ended(i)
    \/ ClockTick

PlaybackSpec == PlainInit /\ [][PlaybackNext]_vars

\* ---------------------------------------------------------------------
\* Playback together with the lip-sync polling loop.
SpeakingNext ==
    \/ PlaybackNext
    \/ \E a \in Averages : UpdateLipSync(a)

SpeakingSpec == PlainInit /\ [][SpeakingNext]_vars

\* ---------------------------------------------------------------------
\* Transcript aggregation on its own: the first connection as above and
\* inbound messages that carry no audio.
TranscriptMessages == { m \in ServerMessages : m.audio = 0 }

TranscriptNext ==
    \/ ConnectClick(1, TRUE)
    \/ AudioInitialized(1)
    \/ OnOpen(1)
    \/ OnError(1)
    \/ OnClose(1)
    \/ \E m \in TranscriptMessages : OnMessage(1, m)

TranscriptSpec == PlainInit /\ [][TranscriptNext]_vars

\* ---------------------------------------------------------------------
\* Capture on its own: connects that request the microphone and get it,
\* on a page without window.aistudio, their transport callbacks and the
\* audioprocess events of their script processors.
CaptureNext ==
    \/ Render
    \/ \E c \in 1..MaxConnects : ConnectClick(c, FALSE)
    \/ \E c \in 1..MaxConnects : AudioInitialized(c)
    \/ \E c \in 1..MaxConnects : MicGranted(c)
    \/ \E c \in 1..MaxConnects : OnOpen(c)
    \/ \E c \in 1..MaxConnects : SessionResolved(c)
    \/ \E c \in 1..MaxConnects : OnError(c)
    \/ \E c \in 1..MaxConnects : OnClose(c)
    \/ \E c \in 1..MaxConnects : CaptureFrame(c)

CaptureSpec == PlainInit /\ [][CaptureNext]_vars

\* ---------------------------------------------------------------------
\* Capture with the unmount of the component; after the unmount the model
\* follows the script processors only.
DisposeNext ==
    \/ mounted /\ CaptureNext
    \/ Unmount
    \/ ~mounted /\ \E c \in 1..MaxConnects : CaptureFrame(c)

DisposeSpec == PlainInit /\ [][DisposeNext]_vars

\* ---------------------------------------------------------------------
\* The message log: the first connection, made text-only on a page without
\* window.aistudio, with its session handle, the form, and inbound
\* messages that carry either a transcript event (delta "a",
\* turn-complete, interruption) or audio (alone or with turn-complete).
LogMessages ==
    { m \in ServerMessages :
        /\ m.text \in {<<>>, <<"a">>}
        /\ m.audio = 0 \/ (m.text = <<>> /\ ~m.interrupted) }

\* what the user types: blanks only, and a word with a blank around it
LogTexts == {<<" ">>, <<" ", "x">>}

LogNext ==
    \/ Render
    \/ ConnectClick(1, TRUE)
    \/ AudioInitialized(1)
    \/ OnOpen(1)
    \/ SessionResolved(1)
    \/ OnError(1)
    \/ OnClose(1)
    \/ \E m \in LogMessages : OnMessage(1, m)
    \/ \E i \in 1..MaxChunks : DecodeDone(i)
    \/ \E t \in LogTexts : HandleSendText(t)

LogSpec == PlainInit /\ [][LogNext]_vars

\* ---------------------------------------------------------------------
\* The volume on its own: the first connection, made text-only on a page
\* without window.aistudio, inbound messages that carry audio only (they
\* start the polling loop) and samples of every magnitude.
AudioOnly ==
    { m \in ServerMessages :
        m.audio # 0 /\ m.text = <<>> /\ ~m.turnComplete /\ ~m.interrupted }

VolumeNext ==
    \/ ConnectClick(1, TRUE)
    \/ AudioInitialized(1)
    \/ OnOpen(1)
    \/ \E m \in AudioOnly : OnMessage(1, m)
    \/ \E a \in Magnitudes : UpdateLipSync(a)

VolumeSpec == PlainInit /\ [][VolumeNext]_vars

\* ---------------------------------------------------------------------
\* Transcript aggregation next to playback: the first connection as above
\* and inbound messages that carry audio, a transcript delta and
\* turn-complete in any combination (no interruption); every decode
\* resolves.
MixedMessages == { m \in ServerMessages : ~m.interrupted }

MixedNext ==
    \/ ConnectClick(1, TRUE)
    \/ AudioInitialized(1)
    \/ OnOpen(1)
    \/ \E m \in MixedMessages : OnMessage(1, m)
    \/ \E i \in 1..MaxChunks : DecodeDone(i)

MixedSpec == PlainInit /\ [][MixedNext]_vars

\* =====================================================================
\* Properties
\* =====================================================================
Scheduled(i) == chunks[i].st = "scheduled"

RECURSIVE Flatten(_)
Flatten(ss) == IF ss = <<>> THEN <<>> ELSE Head(ss) \o Flatten(Tail(ss))

\* C1: as long as no interruption was handled, the scheduled intervals of
\* the chunks are disjoint and in arrival order: a chunk that arrived
\* earlier ends no later than a chunk that arrived later starts.
C1_ArrivalOrder ==
    resets = 0 =>
        \A i, j \in 1..Len(chunks) :
            (i < j /\ Scheduled(i) /\ Scheduled(j))
                => chunks[i].end <= chunks[j].start

\* C2: the step that handles an interruption leaves the active set empty,
\* nextStartTime 0, isSpeaking false and the volume 0.
C2_InterruptionClears ==
    [][resets' # resets =>
          /\ sourcesRef' = {}
          /\ nextStartTimeRef' = 0
          /\ ~isSpeaking'
          /\ audioVolume' = 0]_vars

\* C3: isSpeaking is true exactly when the active set is non-empty.
C3_SpeakingIffActive == isSpeaking <=> (sourcesRef # {})

C5_ConnectedFromConnecting ==
    [][(status' = CONNECTED /\ status # CONNECTED)
          => status = CONNECTING]_vars

AllowedTransitions ==
    { <<DISCONNECTED, CONNECTING>>, <<CONNECTING, CONNECTED>>,
      <<CONNECTING, ERROR>>, <<CONNECTED, DISCONNECTED>>,
      <<CONNECTED, ERROR>>, <<ERROR, DISCONNECTED>> }

\* C6: every change of the status is one of the six listed transitions.
C6_OnlyListedTransitions ==
    [][status' # status => <<status, status'>> \in AllowedTransitions]_vars

UserAppended ==
    /\ Len(messages') > Len(messages)
    /\ messages'[Len(messages')].role = "user"

\* C7: something is sent to the transport or a user message is appended
\* only while the status is CONNECTED, only with a text that is not empty
\* after trimming, and without a change of the status.
C7_SendOnlyWhenConnected ==
    [][(sent' # sent \/ UserAppended) =>
          /\ status = CONNECTED
          /\ status' = status
          /\ sent'[Len(sent')].text # <<>>]_vars

\* C8: the buffer always holds the deltas received since the last
\* turn-complete, in order; a turn-complete appends one agent message with
\* the concatenation of the turn's deltas when it is not empty and none
\* when it is, and leaves the buffer empty; no other event appends.
C8_TurnFinalized ==
    /\ [](transcription = Flatten(heard))
    /\ [][IF turns' # turns
          THEN LET full == Flatten(lastTurn')
               IN  /\ transcription' = <<>>
                   /\ messages' =
                        IF full # <<>>
                        THEN Append(messages,
                                    [role |-> "zulim", text |-> full])
                        ELSE messages
          ELSE messages' = messages]_vars

\* an empty turn and a turn of two different deltas have been finalized
C8_Witness ==
    /\ turns = 2
    /\ Len(lastTurn) = 2
    /\ lastTurn[1] # lastTurn[2]
    /\ Len(messages) = 1
    /\ messages[1].text = Flatten(lastTurn)
    /\ transcription = <<>>

\* C9: a step that handles no interruption never lowers nextStartTime.
C9_NextStartMonotonic ==
    [][resets' = resets => nextStartTimeRef' >= nextStartTimeRef]_vars

\* a chunk was scheduled behind another one and the transport has closed
C9_Witness ==
    /\ \E i, j \in 1..Len(chunks) :
          i # j /\ Scheduled(i) /\ Scheduled(j)
          /\ chunks[j].start = chunks[i].end
    /\ nextStartTimeRef > currentTime
    /\ calls[1].transport = "closed"

\* C10: as long as no interruption was handled and no decode failed, a
\* chunk that arrived while nextStartTime < now is scheduled at that now,
\* and any other chunk starts where its predecessor ends.
C10_BackToBack ==
    (resets = 0 /\ \A k \in 1..Len(chunks) : chunks[k].st # "failed") =>
        \A i \in 1..Len(chunks) :
            Scheduled(i) =>
                IF chunks[i].late
                THEN chunks[i].start = chunks[i].arrived
                ELSE (i > 1 /\ Scheduled(i - 1))
                         => chunks[i].start = chunks[i - 1].end

\* connectToZulim is entered in this step
ConnectInvoked ==
    \E c \in 1..MaxConnects : calls[c].pc = "idle" /\ calls'[c].pc # "idle"

\* connectToZulim has been invoked at most once
OneSession == \A d \in 2..MaxConnects : calls[d].pc = "idle"

\* C11: the step of an error callback or of a failed open leaves the
\* status ERROR with a message, and from then on, with a single session,
\* every step that is not a new connect keeps the status ERROR and the
\* message as it is.
C11_ErrorPersists ==
    [][/\ (\E c \in 1..MaxConnects :
              \/ calls[c].transport # "failed" /\ calls'[c].transport = "failed"
              \/ calls[c].transport = "opening" /\ calls'[c].transport = "closed")
          => (status' = ERROR /\ errorMessage' # NoError)
       /\ (status = ERROR /\ errorMessage # NoError /\ ~ConnectInvoked
              /\ OneSession)
          => (status' = ERROR /\ errorMessage' = errorMessage)]_vars

\* C12: with a single session, a frame is handed to the transport only in
\* a step that starts with the status CONNECTED.
C12_SentOnlyWhenConnected ==
    [][(mediaSent' # mediaSent /\ OneSession) => status = CONNECTED]_vars

\* C13: at most one polling loop is live, and a step that starts with
\* isSpeaking false changes the volume only to 0 (no tick samples while
\* the agent is not speaking).
C13_SamplingStops ==
    /\ [](rafLoops <= 1)
    /\ [][~isSpeaking => audioVolume' \in {audioVolume, 0}]_vars

\* C14: once the component has been disposed of, no call holds a stream
\* or a transport that is opening or open, the active set is empty, and no
\* frame is handed to the transport any more.
C14_DisposeReleases ==
    /\ [](~mounted =>
            /\ \A c \in 1..MaxConnects :
                  /\ ~calls[c].stream
                  /\ calls[c].transport \notin {"opening", "open"}
            /\ sourcesRef = {})
    /\ [][~mounted => mediaSent' = mediaSent]_vars

\* the frames of call c that were handed to its session, in the order of
\* the hand-over
SentOf(c) == SelectSeq(mediaSent, LAMBDA f : f.session = c)

\* C15: for every session the frames handed to the transport are frames
\* that were captured, each at most once and in the order of their
\* capture, and a frame still waiting for the session handle has not been
\* sent.
C15_OnceInCaptureOrder ==
    \A c \in 1..MaxConnects :
        LET s == SentOf(c)
        IN  /\ \A i \in 1..Len(s) : s[i].n \in 1..captured[c]
            /\ \A i, j \in 1..Len(s) : i < j => s[i].n < s[j].n
            /\ \A i \in 1..Len(s), k \in 1..Len(queued[c]) :
                  s[i].n # queued[c][k].n

\* a session has sent, first and second, the two frames that were
\* captured before its handle was available
C15_Witness ==
    \E c \in 1..MaxConnects :
        LET s == SentOf(c)
        IN  /\ Len(s) >= 2
            /\ s[1].early /\ s[2].early
            /\ s[1].n = 1 /\ s[2].n = 2

\* C16: no session has more than one frame that was captured and is
\* still waiting to be sent.
C16_OnePending == \A c \in 1..MaxConnects : Len(queued[c]) <= 1

\* the handler of a message that carries turn-complete runs in this step:
\* at its arrival, or at the end of its decode when it carries audio
TurnCompleteHandled ==
    \/ turns' # turns
    \/ \E i \in 1..Len(chunks) :
          /\ chunks[i].st = "decoding"
          /\ chunks'[i].st = "scheduled"
          /\ chunks[i].rest.turnComplete

\* C17: every step leaves the log as it is or appends one entry to it; an
\* agent entry is appended only by the handler of a turn-complete event
\* and a user entry only by a submit of the form that sends its text.
C17_LogAppendOnly ==
    [][\/ messages' = messages
       \/ /\ Len(messages') = Len(messages) + 1
          /\ SubSeq(messages', 1, Len(messages)) = messages
          /\ LET e == messages'[Len(messages')]
             IN  \/ e.role = "zulim" /\ TurnCompleteHandled /\ sent' = sent
                 \/ /\ e.role = "user"
                    /\ sent' = Append(sent, [session |-> sessionRef,
                                             text |-> e.text])
                    /\ ~TurnCompleteHandled]_vars

\* the log holds a user entry and an agent entry, a chunk has been
\* scheduled, an interruption has been handled and the transport has
\* failed and closed
C17_Witness ==
    /\ \E i, j \in 1..Len(messages) :
          messages[i].role = "user" /\ messages[j].role = "zulim"
    /\ \E i \in 1..Len(chunks) : Scheduled(i)
    /\ resets = 1
    /\ errorMessage = ConnError
    /\ calls[1].transport = "closed"

\* C18: the volume lies between 0 and 1 (0..100 hundredths); it is the
\* hundredth part of the last sampled average below 100, exactly 0 for
\* an average of 0 and exactly 1 for an average of 100 or more.
C18_VolumeNormalized ==
    /\ audioVolume \in 0..100
    /\ average = 0 => audioVolume = 0
    /\ average < 100 => audioVolume = average
    /\ average >= 100 => audioVolume = 100

\* a sample far above the scale has been taken by a live loop
C18_Witness ==
    /\ rafLoops > 0
    /\ average = 255
    /\ audioVolume = 100

\* C19: every source in the active set belongs to a chunk that arrived
\* after the last interruption that was handled.
C19_InFlightDiscarded ==
    \A i \in sourcesRef : chunks[i].epoch = resets

\* C20: whenever no decode is pending, the buffer holds the deltas that
\* arrived since the last turn-complete, in the order of their arrival,
\* and the last agent entry of the log is the text of the last completed
\* turn that had deltas.
C20_DeltasInArrivalOrder ==
    (\A i \in 1..Len(chunks) : chunks[i].st # "decoding") =>
        /\ transcription = Flatten(heard)
        /\ (turns > 0 /\ lastTurn # <<>>) =>
              /\ messages # <<>>
              /\ messages[Len(messages)].text = Flatten(lastTurn)

\* C21: the step in which a decode fails changes neither the active set
\* nor nextStartTime nor the status; and while every chunk that has
\* arrived has failed and no interruption was handled, playback is as if
\* no chunk had arrived: nextStartTime has its initial value 0 and the
\* active set is empty.
C21_FailedChunkLeavesNoTrace ==
    /\ [][(\E i \in 1..Len(chunks) :
              chunks[i].st = "decoding" /\ chunks'[i].st = "failed")
          => /\ sourcesRef' = sourcesRef
             /\ nextStartTimeRef' = nextStartTimeRef
             /\ status' = status]_vars
    /\ []((/\ resets = 0
           /\ chunks # <<>>
           /\ \A i \in 1..Len(chunks) : chunks[i].st = "failed")
          => (nextStartTimeRef = 0 /\ sourcesRef = {}))

\* no decode is pending, no source is in the active set and no 'ended'
\* event of a stopped source is outstanding
PlaybackDone ==
    /\ \A i \in 1..Len(chunks) : chunks[i].st # "decoding"
    /\ sourcesRef = {}
    /\ stopped = {}

\* C22: once every decode has finished and every started source has
\* completed, isSpeaking is false (nothing is left that would turn it
\* false later).
C22_SilentWhenDone == PlaybackDone => ~isSpeaking

\* C23: a step that starts a source passes a start time that is not
\* earlier than the output clock at that step, so the buffer stops
\* playing at its scheduled end.
C23_StartNotInPast ==
    [][\A i \in 1..Len(chunks) :
          (chunks[i].st = "decoding" /\ chunks'[i].st = "scheduled") =>
              /\ chunks'[i].start >= currentTime
              /\ chunks'[i].playEnd = chunks'[i].end]_vars

====
